---------------------------- MODULE Spec2Model ----------------------------
(***************************************************************************)
(* A model of the request handlers of djstripe/views.py.                   *)
(*                                                                         *)
(* Every HTTP request is handled to completion by one handler, so each     *)
(* view method is one action.  The variable `response` holds the outcome   *)
(* of the request handled last: the view, the inputs of the request, the   *)
(* HTTP response, the flash messages the request queued and the provider   *)
(* calls it made, in order.                                                *)
(*                                                                         *)
(* The operations of Customer, Subscription and WebhookEventTrigger that   *)
(* the views call (djstripe/models.py) are modelled from the design        *)
(* document.                                                               *)
(***************************************************************************)
EXTENDS Integers, Sequences, FiniteSets, TLC

VARIABLES
    triggers,    \* the WebhookEventTrigger table; a row's id is its index
    customers,   \* the Customer table; a row's id is its index
    loggedIn,    \* per subscriber: the session is authenticated
    response     \* the outcome of the request handled last

vars == <<triggers, customers, loggedIn, response>>

billingVars == <<customers, loggedIn>>

----------------------------------------------------------------------------
(* Bounds of the model.                                                    *)

MaxTriggers == 2
NumSubscribers == 2
NumPlans == 2
MaxPeriod == 2
MaxUrlLen == 5

Subscribers == 1..NumSubscribers
Plans == 1..NumPlans
PeriodEnds == 1..MaxPeriod

----------------------------------------------------------------------------
(* Responses.                                                              *)

NoUrl == << >>

NoGoc == [id |-> 0, created |-> FALSE]

NoRequest ==
    [hasSignature |-> FALSE, testPayload |-> FALSE,
     sigValid |-> FALSE, raises |-> FALSE,
     plan_id |-> "", form_plan |-> "", next |-> NoUrl, hasNext |-> FALSE,
     customerBefore |-> 0, alreadySubscribed |-> FALSE,
     hadSubscription |-> FALSE]

BlankResponse ==
    [view |-> "none", subscriber |-> 0, request |-> NoRequest,
     status |-> 0, kind |-> "none", body |-> "", location |-> NoUrl,
     messages |-> << >>, calls |-> << >>, raised |-> "none",
     error_text |-> FALSE, logged_out |-> FALSE, trigger |-> 0,
     goc |-> NoGoc]

----------------------------------------------------------------------------
(* ProcessWebhookView                                                      *)

TestMessage == "Test webhook successfully received!"

WebhookRequests ==
    [hasSignature : BOOLEAN, testPayload : BOOLEAN,
     sigValid : BOOLEAN, raises : BOOLEAN]

\* WebhookEventTrigger.from_request: the trigger built from a request.  The
\* row is persisted whatever the outcome flags are.
TriggerOf(req) ==
    [exception |-> req.raises,
     is_test_event |-> req.testPayload,
     valid |-> req.sigValid]

from_request(table, req) == Append(table, TriggerOf(req))

HttpResponseBadRequest == [status |-> 400, kind |-> "bad_request", body |-> ""]
HttpResponseServerError == [status |-> 500, kind |-> "server_error", body |-> ""]
HttpResponse(kind, body) == [status |-> 200, kind |-> kind, body |-> body]

\* Variants of lines 274-286: the test-event check before the exception
\* check, the validity check left out, the validity check before the
\* test-event check.
TriggerResponseSwapped(trigger, id) ==
    IF trigger.is_test_event THEN HttpResponse("test_ok", TestMessage)
    ELSE IF trigger.exception THEN HttpResponseServerError
    ELSE IF ~trigger.valid THEN HttpResponseBadRequest
    ELSE HttpResponse("trigger_ok", ToString(id))

TriggerResponseNoValidCheck(trigger, id) ==
    IF trigger.exception THEN HttpResponseServerError
    ELSE IF trigger.is_test_event THEN HttpResponse("test_ok", TestMessage)
    ELSE HttpResponse("trigger_ok", ToString(id))

TriggerResponseValidFirst(trigger, id) ==
    IF trigger.exception THEN HttpResponseServerError
    ELSE IF ~trigger.valid THEN HttpResponseBadRequest
    ELSE IF trigger.is_test_event THEN HttpResponse("test_ok", TestMessage)
    ELSE HttpResponse("trigger_ok", ToString(id))

\* Lines 274-286: the response for a trigger that was built.
TriggerResponse(trigger, id) ==
    IF trigger.exception THEN HttpResponseServerError
    ELSE IF trigger.is_test_event THEN HttpResponse("test_ok", TestMessage)
    ELSE IF ~trigger.valid THEN HttpResponseBadRequest
    ELSE HttpResponse("trigger_ok", ToString(id))

\* Line 267 left out.
SignaturePresentAlways(req) == TRUE

\* Line 267: the request carries the Stripe-Signature header.

SignaturePresent(req) == req.hasSignature

WebhookRequestRecord(req) ==
    [NoRequest EXCEPT !.hasSignature = req.hasSignature,
                      !.testPayload = req.testPayload,
                      !.sigValid = req.sigValid,
                      !.raises = req.raises]

WebhookOutcome(req, http, id) ==
    [BlankResponse EXCEPT !.view = "webhook",
                          !.request = WebhookRequestRecord(req),
                          !.status = http.status,
                          !.kind = http.kind,
                          !.body = http.body,
                          !.trigger = id]

\* ProcessWebhookView.post
ProcessWebhookPost(req) ==
    /\ UNCHANGED billingVars
    /\ IF ~SignaturePresent(req)
       THEN /\ triggers' = triggers
            /\ response' = WebhookOutcome(req, HttpResponseBadRequest, 0)
       ELSE /\ Len(triggers) < MaxTriggers
            /\ triggers' = from_request(triggers, req)
            /\ LET id == Len(triggers')
                   trigger == triggers'[id]
               IN response' = WebhookOutcome(req, TriggerResponse(trigger, id), id)

----------------------------------------------------------------------------
(* URLs are strings over a small alphabet: a slash, a backslash, a colon   *)
(* and a letter.  django.utils.http.is_safe_url is modelled on these as    *)
(* the library computes it when, as on line 142, no allowed host is given. *)
(* The alphabet has no white space and no control character, so the        *)
(* library's strip() and its check of the first character do nothing here. *)

Chars == {"/", "\\", ":", "e"}
SchemeChars == {"e"}

RECURSIVE SeqsUpTo(_)
SeqsUpTo(n) ==
    IF n = 0 THEN {<< >>}
    ELSE LET shorter == SeqsUpTo(n - 1)
         IN shorter \cup {Append(u, c) : u \in {v \in shorter : Len(v) = n - 1},
                                          c \in Chars}

Urls == SeqsUpTo(MaxUrlLen)

\* The ?next query parameter: absent, or a string.
NextParams == {[present |-> FALSE, value |-> NoUrl]}
                  \cup {[present |-> TRUE, value |-> u] : u \in Urls}

SampleNextParams ==
    {[present |-> FALSE, value |-> NoUrl],
     [present |-> TRUE, value |-> <<"/", "e">>],
     [present |-> TRUE, value |-> <<"/", "/", "e">>]}

Drop(u, n) == SubSeq(u, n + 1, Len(u))
StartsWith(u, prefix) ==
    Len(u) >= Len(prefix) /\ SubSeq(u, 1, Len(prefix)) = prefix

\* The index of the first element of u in the set cs, or Len(u) + 1.
FirstIn(u, cs) ==
    IF \E i \in 1..Len(u) : u[i] \in cs
    THEN CHOOSE i \in 1..Len(u) :
            u[i] \in cs /\ \A j \in 1..(i - 1) : u[j] \notin cs
    ELSE Len(u) + 1

\* urlparse: the scheme is the text before the first colon when that text is
\* not empty and is made of scheme characters; the network location is what
\* follows a leading "//", up to the next slash.
UrlParse(u) ==
    LET colon == FirstIn(u, {":"})
        hasScheme == /\ colon > 1
                     /\ colon <= Len(u)
                     /\ \A i \in 1..(colon - 1) : u[i] \in SchemeChars
        scheme == IF hasScheme THEN SubSeq(u, 1, colon - 1) ELSE << >>
        rest == IF hasScheme THEN Drop(u, colon) ELSE u
        hasNetloc == StartsWith(rest, <<"/", "/">>)
        after == Drop(rest, 2)
        netloc == IF hasNetloc
                  THEN SubSeq(after, 1, FirstIn(after, {"/"}) - 1)
                  ELSE << >>
    IN [scheme |-> scheme, netloc |-> netloc]

ValidSchemes == {<<"h", "t", "t", "p">>, <<"h", "t", "t", "p", "s">>}
AllowedHosts == {}

_is_safe_url(u) ==
    IF StartsWith(u, <<"/", "/", "/">>) THEN FALSE
    ELSE LET url_info == UrlParse(u)
         IN IF url_info.netloc = << >> /\ url_info.scheme # << >> THEN FALSE
            ELSE /\ (url_info.netloc = << >> \/ url_info.netloc \in AllowedHosts)
                 /\ (url_info.scheme = << >> \/ url_info.scheme \in ValidSchemes)

ReplaceBackslash(u) == [i \in 1..Len(u) |-> IF u[i] = "\\" THEN "/" ELSE u[i]]

is_safe_url(u) ==
    IF u = << >> THEN FALSE
    ELSE _is_safe_url(u) /\ _is_safe_url(ReplaceBackslash(u))

\* reverse_lazy("home"), lines 127-128, and the named routes of the other
\* redirects.  A route name is no string over Chars.
Route(name) == <<name>>
success_url == Route("home")
redirect_url == Route("home")

\* get_redirect_url without the is_safe_url check of line 142.
get_redirect_url_unchecked(next) ==
    IF next.present /\ next.value # << >>
    THEN next.value
    ELSE redirect_url

\* CancelSubscriptionView.get_redirect_url
get_redirect_url(next) ==
    IF next.present /\ next.value # << >> /\ is_safe_url(next.value)
    THEN next.value
    ELSE redirect_url

----------------------------------------------------------------------------
(* Customer and Subscription (djstripe/models.py), from the design         *)
(* document.                                                               *)

NoSub == [plan |-> 0, status |-> "none", current_period_end |-> 0]

canceled == "canceled"
LiveStatuses == {"active", "trialing", "past_due"}
NewStatuses == {"active", "trialing"}

NewCustomer(s) == [subscriber |-> s, default_source |-> FALSE, sub |-> NoSub]

\* The id of the Customer of subscriber s, or 0.
FindCustomer(table, s) ==
    IF \E i \in 1..Len(table) : table[i].subscriber = s
    THEN CHOOSE i \in 1..Len(table) : table[i].subscriber = s
    ELSE 0

\* get_or_create without the lookup.
get_or_create_always(table, s) ==
    [table |-> Append(table, NewCustomer(s)),
     id |-> Len(table) + 1, created |-> TRUE]

\* Customer.get_or_create(subscriber): the table afterwards, the id of the
\* Customer returned and was_created.
get_or_create(table, s) ==
    IF FindCustomer(table, s) # 0
    THEN [table |-> table, id |-> FindCustomer(table, s), created |-> FALSE]
    ELSE [table |-> Append(table, NewCustomer(s)),
          id |-> Len(table) + 1, created |-> TRUE]

\* customer.subscription: nothing when there is none or it is canceled.
Subscription(customer) ==
    IF customer.sub.status \in {"none", canceled} THEN NoSub ELSE customer.sub

\* subscription.is_valid()
is_valid(sub) == sub.status \in {"active", "trialing"}

\* customer.add_card(token)
add_card(customer) == [customer EXCEPT !.default_source = TRUE]

\* customer.subscribe(plan), when the provider accepts it.
subscribe(customer, plan, status, period_end) ==
    [customer EXCEPT !.sub = [plan |-> plan, status |-> status,
                              current_period_end |-> period_end]]

\* subscription.cancel(): immediate, or deferred to the end of the period.
cancel(sub, immediate) ==
    IF immediate THEN [sub EXCEPT !.status = canceled] ELSE sub

\* The response of a request to which get_or_create returned.
Returned(out, goc) ==
    [out EXCEPT !.goc = [id |-> goc.id, created |-> goc.created]]

----------------------------------------------------------------------------
(* The billing views.  A provider call that is reached raises StripeError  *)
(* when the input `fail` names it.                                         *)

FailPoints == {"none", "get_or_create", "add_card", "subscribe", "cancel",
               "send_invoice", "retry_unpaid_invoices"}

\* Plan.objects: the primary keys, and the pk a URL or form value names.
PlanIds == {ToString(p) : p \in 1..(NumPlans + 1)}
PlanExists(plan_id) == \E p \in Plans : ToString(p) = plan_id
PlanByPk(plan_id) == CHOOSE p \in Plans : ToString(p) = plan_id

AlreadySubscribedMsg == <<"You already subscribed to this plan">>
form_valid_message == <<"You are now subscribed!">>
subscription_cancel_message == <<"Your subscription is now cancelled.">>
subscription_status_message(status, period_end) ==
    <<"Your subscription status is now '{status}' until '{period_end}'",
      status, period_end>>
StripeErrorMsg == <<"Stripe Error">>
CardUpdatedMsg == <<"Your card is now updated.">>

Outcome(view, s, req) ==
    [BlankResponse EXCEPT !.view = view, !.subscriber = s, !.request = req]

\* LoginRequiredMixin: an anonymous request is sent to the login page and
\* the handler is not run.
LoginRequired(view, s, req) ==
    /\ ~loggedIn[s]
    /\ response' = [Outcome(view, s, req) EXCEPT !.status = 302,
                                                 !.kind = "login_required",
                                                 !.location = Route("login")]
    /\ UNCHANGED <<triggers, customers, loggedIn>>

\* An exception no handler catches: the framework answers with status 500.
Unhandled(out, calls, raised) ==
    [out EXCEPT !.status = 500, !.kind = "exception",
                !.calls = calls, !.raised = raised]

\* The session signs in (django.contrib.auth).
Login(s) ==
    /\ ~loggedIn[s]
    /\ loggedIn' = [loggedIn EXCEPT ![s] = TRUE]
    /\ response' = [Outcome("login", s, NoRequest) EXCEPT !.status = 302,
                                                           !.kind = "logged_in"]
    /\ UNCHANGED <<triggers, customers>>

\* The customer is validly subscribed to the plan a URL names (lines 83-84).
SubscribedTo(customer, plan_id) ==
    /\ Subscription(customer) # NoSub
    /\ ToString(Subscription(customer).plan) = plan_id
    /\ is_valid(Subscription(customer))

\* The state of subscriber s before the request, as the properties read it:
\* the Customer, whether it is validly subscribed to the plan asked for, and
\* whether it has a subscription.
Snapshot(s, plan_id) ==
    LET id == FindCustomer(customers, s)
    IN [customerBefore |-> id,
        alreadySubscribed |-> id # 0 /\ SubscribedTo(customers[id], plan_id),
        hadSubscription |-> id # 0 /\ Subscription(customers[id]) # NoSub]

BillingRequest(s, plan_id, next) ==
    [NoRequest EXCEPT !.plan_id = plan_id,
                      !.form_plan = "",
                      !.next = next.value,
                      !.hasNext = next.present,
                      !.customerBefore = Snapshot(s, plan_id).customerBefore,
                      !.alreadySubscribed = Snapshot(s, plan_id).alreadySubscribed,
                      !.hadSubscription = Snapshot(s, plan_id).hadSubscription]

NoNext == [present |-> FALSE, value |-> NoUrl]

\* ConfirmFormView.get
ConfirmGet(s, plan_id, fail) ==
    LET out == Outcome("confirm_get", s, BillingRequest(s, plan_id, NoNext))
        goc == get_or_create(customers, s)
        ret == Returned(out, goc)
        customer == goc.table[goc.id]
    IN /\ loggedIn[s]
       /\ UNCHANGED <<triggers, loggedIn>>
       /\ IF ~PlanExists(plan_id)
          THEN /\ response' = [out EXCEPT !.status = 404, !.kind = "not_found"]
               /\ UNCHANGED customers
          ELSE IF goc.created /\ fail = "get_or_create"
          THEN /\ response' = Unhandled(out, <<"get_or_create">>, "get_or_create")
               /\ UNCHANGED customers
          ELSE /\ customers' = goc.table
               /\ IF SubscribedTo(customer, plan_id)
                  THEN response' = [ret EXCEPT !.status = 302,
                                               !.kind = "already_subscribed",
                                               !.messages = <<AlreadySubscribedMsg>>,
                                               !.location = Route("djstripe:subscribe"),
                                               !.calls = <<"get_or_create">>]
                  ELSE response' = [ret EXCEPT !.status = 200,
                                               !.kind = "render_form",
                                               !.calls = <<"get_or_create">>]

\* FormView.form_invalid through ConfirmFormView.get_context_data (lines
\* 91-95): the form is rendered again with its errors, and Plan.objects.get
\* raises when the URL names no plan.
form_invalid(out, plan_id, calls, raised) ==
    IF PlanExists(plan_id)
    THEN [out EXCEPT !.status = 200, !.kind = "form_invalid",
                     !.calls = calls, !.raised = raised,
                     !.error_text = (raised # "none")]
    ELSE [out EXCEPT !.status = 500, !.kind = "exception",
                     !.calls = calls, !.raised = raised]

\* Lines 107-116: the provider calls of a valid form.  customer.subscribe
\* raises ValidationError when the customer is validly subscribed to the plan
\* already, and the view catches StripeError only.
ConfirmTry(out, s, plan_id, form_plan, fail, status, period_end) ==
    LET goc == get_or_create(customers, s)
        ret == Returned(out, goc)
        customer == goc.table[goc.id]
        carded == add_card(customer)
        already == SubscribedTo(customer, form_plan)
    IN IF goc.created /\ fail = "get_or_create"
       THEN /\ response' = form_invalid(out, plan_id, <<"get_or_create">>,
                                        "get_or_create")
            /\ UNCHANGED customers
       ELSE /\ IF fail = "add_card"
               THEN /\ customers' = goc.table
                    /\ response' = form_invalid(ret, plan_id,
                                       <<"get_or_create", "add_card">>, "add_card")
               ELSE IF already
               THEN \* subscribe raises ValidationError, which nothing catches
                    /\ customers' = [goc.table EXCEPT ![goc.id] = carded]
                    /\ response' = Unhandled(ret,
                            <<"get_or_create", "add_card", "subscribe">>,
                            "ValidationError")
               ELSE IF fail = "subscribe"
               THEN /\ customers' = [goc.table EXCEPT ![goc.id] = carded]
                    /\ response' = form_invalid(ret, plan_id,
                            <<"get_or_create", "add_card", "subscribe">>,
                            "subscribe")
               ELSE /\ customers' = [goc.table EXCEPT ![goc.id] =
                            subscribe(carded, PlanByPk(form_plan), status, period_end)]
                    /\ response' = [ret EXCEPT
                            !.status = 302, !.kind = "form_valid",
                            !.messages = <<form_valid_message>>,
                            !.location = Route("djstripe:history"),
                            !.calls = <<"get_or_create", "add_card", "subscribe">>]

\* ConfirmFormView.post: plan_id is the plan of the URL, form_plan the value
\* of the form's plan field.
ConfirmPost(s, plan_id, form_plan, fail, status, period_end) ==
    LET asked == BillingRequest(s, form_plan, NoNext)
        out == Outcome("confirm_post", s,
                       [asked EXCEPT !.plan_id = plan_id, !.form_plan = form_plan])
    IN /\ loggedIn[s]
       /\ UNCHANGED <<triggers, loggedIn>>
       /\ IF ~PlanExists(form_plan)
          THEN /\ response' = form_invalid(out, plan_id, << >>, "none")
               /\ UNCHANGED customers
          ELSE ConfirmTry(out, s, plan_id, form_plan, fail, status, period_end)

\* CancelSubscriptionView.status_cancel
status_cancel(out, s, next, calls) ==
    /\ loggedIn' = [loggedIn EXCEPT ![s] = FALSE]
    /\ response' = [out EXCEPT !.status = 302, !.kind = "status_cancel",
                               !.messages = <<subscription_cancel_message>>,
                               !.logged_out = TRUE,
                               !.location = get_redirect_url(next),
                               !.calls = calls]

\* Line 160 with status_cancel taken for every status.
IsCanceledAlways(status) == TRUE

\* Line 160: the status that means the subscription ended at once.
IsCanceled(status) == status = canceled

\* Lines 153-156 left out.
NothingToCancelNever(customer) == FALSE

\* Line 153: the customer has no subscription to cancel.
NothingToCancel(customer) == Subscription(customer) = NoSub

\* CancelSubscriptionView.post, that is form_valid: the form has no field.
CancelPost(s, next, fail, immediate) ==
    LET out == Outcome("cancel", s, BillingRequest(s, "", next))
        goc == get_or_create(customers, s)
        ret == Returned(out, goc)
        customer == goc.table[goc.id]
        subscription == cancel(customer.sub, immediate)
    IN /\ loggedIn[s]
       /\ UNCHANGED triggers
       /\ IF goc.created /\ fail = "get_or_create"
          THEN /\ response' = Unhandled(out, <<"get_or_create">>, "get_or_create")
               /\ UNCHANGED <<customers, loggedIn>>
          ELSE /\ IF NothingToCancel(customer)
                  THEN /\ customers' = goc.table
                       /\ status_cancel(ret, s, next, <<"get_or_create">>)
                  ELSE IF fail = "cancel"
                  THEN /\ customers' = goc.table
                       /\ UNCHANGED loggedIn
                       /\ response' = Unhandled(ret, <<"get_or_create", "cancel">>,
                                                "cancel")
                  ELSE /\ customers' = [goc.table EXCEPT ![goc.id].sub = subscription]
                       /\ IF IsCanceled(subscription.status)
                          THEN status_cancel(ret, s, next, <<"get_or_create", "cancel">>)
                          ELSE /\ UNCHANGED loggedIn
                               /\ response' = [ret EXCEPT
                                     !.status = 302, !.kind = "form_valid",
                                     !.messages = <<subscription_status_message(
                                         subscription.status,
                                         subscription.current_period_end)>>,
                                     !.location = success_url,
                                     !.calls = <<"get_or_create", "cancel">>]

\* Lines 206-213: the provider calls of ChangeCardView.post after get_object,
\* up to the one that raises.
CardCalls(customer, fail) ==
    LET planned == <<"add_card">>
                     \o (IF ~customer.default_source THEN <<"send_invoice">> ELSE << >>)
                     \o <<"retry_unpaid_invoices">>
        k == FirstIn(planned, {fail})
    IN [calls |-> SubSeq(planned, 1, IF k > Len(planned) THEN Len(planned) ELSE k),
        raised |-> IF k > Len(planned) THEN "none" ELSE fail]

\* ChangeCardView.post
ChangeCardPost(s, fail) ==
    LET out == Outcome("change_card", s, BillingRequest(s, "", NoNext))
        goc == get_or_create(customers, s)
        ret == Returned(out, goc)
        customer == goc.table[goc.id]
        run == CardCalls(customer, fail)
    IN /\ loggedIn[s]
       /\ UNCHANGED <<triggers, loggedIn>>
       /\ IF goc.created /\ fail = "get_or_create"
          THEN /\ response' = Unhandled(out, <<"get_or_create">>, "get_or_create")
               /\ UNCHANGED customers
          ELSE /\ customers' = IF run.raised = "add_card" THEN goc.table
                               ELSE [goc.table EXCEPT ![goc.id] = add_card(customer)]
               /\ IF run.raised # "none"
                  THEN response' = [ret EXCEPT
                            !.status = 200, !.kind = "render_error",
                            !.messages = <<StripeErrorMsg>>,
                            !.calls = <<"get_or_create">> \o run.calls,
                            !.raised = run.raised,
                            !.error_text = TRUE]
                  ELSE response' = [ret EXCEPT
                            !.status = 302, !.kind = "card_updated",
                            !.messages = <<CardUpdatedMsg>>,
                            !.location = Route("djstripe:account"),
                            !.calls = <<"get_or_create">> \o run.calls]

\* HistoryView.get: DetailView.get renders the object of get_object.
HistoryGet(s, fail) ==
    LET out == Outcome("history", s, BillingRequest(s, "", NoNext))
        goc == get_or_create(customers, s)
        ret == Returned(out, goc)
    IN /\ loggedIn[s]
       /\ UNCHANGED <<triggers, loggedIn>>
       /\ IF goc.created /\ fail = "get_or_create"
          THEN /\ response' = Unhandled(out, <<"get_or_create">>, "get_or_create")
               /\ UNCHANGED customers
          ELSE /\ customers' = goc.table
               /\ response' = [ret EXCEPT !.status = 200, !.kind = "detail",
                                          !.calls = <<"get_or_create">>]

\* The provider changes the status of a live subscription (reported by a
\* webhook event and mirrored locally).
ProviderStatusChange(s, status) ==
    LET id == FindCustomer(customers, s)
    IN /\ id # 0
       /\ customers[id].sub.status \in LiveStatuses
       /\ status \in (LiveStatuses \cup {canceled}) \ {customers[id].sub.status}
       /\ customers' = [customers EXCEPT ![id].sub.status = status]
       /\ response' = [Outcome("provider_event", s, NoRequest) EXCEPT
                          !.kind = status]
       /\ UNCHANGED <<triggers, loggedIn>>

\* An anonymous request to any of the billing views.
AnonymousRequest(s, view) == LoginRequired(view, s, NoRequest)

BillingViews == {"confirm_get", "confirm_post", "cancel", "change_card", "history"}

----------------------------------------------------------------------------

Init ==
    /\ triggers = << >>
    /\ customers = << >>
    /\ loggedIn = [s \in Subscribers |-> FALSE]
    /\ response = BlankResponse

NextWebhook == \E req \in WebhookRequests : ProcessWebhookPost(req)

SpecWebhook == Init /\ [][NextWebhook]_vars

\* The subscriber whose requests SpecBilling and SpecRedirect follow.
TheSubscriber == CHOOSE s \in Subscribers : TRUE

\* Every billing view, for one subscriber, under every input.
NextBilling ==
    \E s \in {TheSubscriber} :
        \/ Login(s)
        \/ \E view \in BillingViews : AnonymousRequest(s, view)
        \/ \E fail \in FailPoints : ChangeCardPost(s, fail)
        \/ \E plan_id \in PlanIds, fail \in {"none", "get_or_create"} :
              ConfirmGet(s, plan_id, fail)
        \/ \E plan_id \in PlanIds, form_plan \in PlanIds,
              fail \in {"none", "get_or_create", "add_card", "subscribe"},
              status \in NewStatuses, period_end \in PeriodEnds :
              ConfirmPost(s, plan_id, form_plan, fail, status, period_end)
        \/ \E next \in SampleNextParams, fail \in {"none", "get_or_create", "cancel"},
              immediate \in BOOLEAN :
              CancelPost(s, next, fail, immediate)
        \/ \E fail \in {"none", "get_or_create"} : HistoryGet(s, fail)
        \/ \E status \in LiveStatuses \cup {canceled} : ProviderStatusChange(s, status)

SpecBilling == Init /\ [][NextBilling]_vars

\* Every view that calls Customer.get_or_create, for every subscriber and
\* every provider failure; the plan, the status of a new subscription, the
\* period end and ?next are fixed.
NextCustomers ==
    \E s \in Subscribers :
        \/ Login(s)
        \/ \E fail \in {"none", "get_or_create"} : ConfirmGet(s, "1", fail)
        \/ \E fail \in {"none", "get_or_create", "add_card", "subscribe"} :
              ConfirmPost(s, "1", "1", fail, "active", 1)
        \/ \E fail \in {"none", "get_or_create", "cancel"}, immediate \in BOOLEAN :
              CancelPost(s, NoNext, fail, immediate)
        \/ \E fail \in FailPoints : ChangeCardPost(s, fail)
        \/ \E fail \in {"none", "get_or_create"} : HistoryGet(s, fail)

SpecCustomers == Init /\ [][NextCustomers]_vars

\* The cancellations of one subscriber that end in status_cancel, the one
\* caller of get_redirect_url, under every value of ?next.
NextRedirect ==
    \E s \in {TheSubscriber} :
        \/ Login(s)
        \/ \E status \in NewStatuses : ConfirmPost(s, "1", "1", "none", status, 1)
        \/ \E next \in NextParams : CancelPost(s, next, "none", TRUE)

SpecRedirect == Init /\ [][NextRedirect]_vars

----------------------------------------------------------------------------
(* Properties of ProcessWebhookView, checked under SpecWebhook.  Every     *)
(* step of SpecWebhook handles one webhook POST, and response' describes   *)
(* the request handled by the step.                                        *)

IsWebhook(r) == r.view = "webhook"

\* The persisted row of the request handled last (it carried the header).
LastTrigger == triggers[response.trigger]

\* C1: a webhook POST without the Stripe-Signature header is answered with
\* HTTP 400 and leaves the table of trigger records as it was, whatever the
\* body holds.
C1_MissingHeaderRejected ==
    [][(IsWebhook(response') /\ ~response'.request.hasSignature)
          => (/\ response'.status = 400
              /\ response'.trigger = 0
              /\ triggers' = triggers)]_vars

C1_Witness ==
    /\ IsWebhook(response)
    /\ ~response.request.hasSignature
    /\ response.request.testPayload
    /\ response.request.sigValid
    /\ response.status = 400
    /\ Len(triggers) > 0

\* C2 as stated: a webhook POST whose payload marks it as a test event is
\* always answered with 200 and the fixed message.
C2_TestEventAlwaysOk ==
    (IsWebhook(response) /\ response.request.testPayload)
        => (response.status = 200 /\ response.body = TestMessage)

\* C2 as amended: a webhook POST that carries the signature header, whose
\* trigger has no exception and is a test event, is answered with 200 and
\* the fixed message for every value of trigger.valid.
C2_TestEventOkWhenBuilt ==
    (/\ IsWebhook(response)
     /\ response.request.hasSignature
     /\ response.request.testPayload
     /\ ~LastTrigger.exception)
        => (response.status = 200 /\ response.body = TestMessage)

C2_Witness ==
    /\ IsWebhook(response)
    /\ response.request.hasSignature
    /\ response.request.testPayload
    /\ ~LastTrigger.exception
    /\ ~LastTrigger.valid
    /\ response.status = 200
    /\ response.body = TestMessage

\* C3: a webhook POST that carries the header, raises nothing, is no test
\* event and fails signature verification is answered with HTTP 400, and
\* the request added exactly one trigger record, with valid = FALSE.
C3_InvalidSignatureRecorded ==
    [][(/\ IsWebhook(response')
        /\ response'.request.hasSignature
        /\ ~response'.request.raises
        /\ ~response'.request.testPayload
        /\ ~response'.request.sigValid)
          => (/\ response'.status = 400
              /\ Len(triggers') = Len(triggers) + 1
              /\ SubSeq(triggers', 1, Len(triggers)) = triggers
              /\ response'.trigger = Len(triggers')
              /\ triggers'[Len(triggers')].valid = FALSE)]_vars

C3_Witness ==
    /\ IsWebhook(response)
    /\ response.request.hasSignature
    /\ ~response.request.raises
    /\ ~response.request.testPayload
    /\ ~response.request.sigValid
    /\ response.status = 400
    /\ Len(triggers) >= 2
    /\ response.trigger = Len(triggers)
    /\ ~LastTrigger.valid

IsBadRequest(r) == r.status = 400 /\ r.body = ""
IsServerError(r) == r.status = 500 /\ r.body = ""
IsTestOk(r) == r.status = 200 /\ r.body = TestMessage
IsTriggerOk(r) == r.status = 200 /\ r.trigger > 0 /\ r.body = ToString(r.trigger)

\* C4: the outcome follows the precedence missing header, exception, test
\* event, invalid, valid; in particular an exception gives 500 even for a
\* test event or a valid trigger, and 200 with the trigger id is given only
\* for header present, no exception, no test event, valid.  Every request
\* ends in exactly one of the four responses.
C4_Precedence ==
    IsWebhook(response) =>
        LET q == response.request
            built == q.hasSignature
            t == IF built THEN LastTrigger ELSE TriggerOf(q)
        IN /\ Cardinality({k \in 1..4 :
                    \/ k = 1 /\ IsBadRequest(response)
                    \/ k = 2 /\ IsServerError(response)
                    \/ k = 3 /\ IsTestOk(response)
                    \/ k = 4 /\ IsTriggerOk(response)}) = 1
           /\ IsServerError(response) <=> (built /\ t.exception)
           /\ IsTestOk(response) <=> (built /\ ~t.exception /\ t.is_test_event)
           /\ IsTriggerOk(response) <=>
                 (built /\ ~t.exception /\ ~t.is_test_event /\ t.valid)
           /\ IsBadRequest(response) <=>
                 (~built \/ (~t.exception /\ ~t.is_test_event /\ ~t.valid))

C4_Witness ==
    /\ IsWebhook(response)
    /\ response.request.hasSignature
    /\ LastTrigger.exception
    /\ LastTrigger.is_test_event
    /\ LastTrigger.valid
    /\ IsServerError(response)

----------------------------------------------------------------------------
(* Properties of CancelSubscriptionView, checked under SpecBilling.        *)

IsCancel(r) == r.view = "cancel"

\* The Customer that get_or_create returned to the request handled last.
LastCustomer == customers[response.goc.id]

\* The provider's cancel was called by the request and returned.
CancelReturned(r) ==
    /\ IsCancel(r)
    /\ r.calls = <<"get_or_create", "cancel">>
    /\ r.raised = "none"

\* C5: when cancel() returns the status canceled, the user is logged out and
\* redirected to get_redirect_url(); for any other status it returns, the
\* user stays logged in, the message with the status and current_period_end
\* is queued and the response is the redirect to success_url.
C5_CancelBranches ==
    CancelReturned(response) =>
        LET sub == LastCustomer.sub
            next == [present |-> response.request.hasNext,
                     value |-> response.request.next]
        IN IF sub.status = canceled
           THEN /\ response.logged_out
                /\ ~loggedIn[response.subscriber]
                /\ response.status = 302
                /\ response.location = get_redirect_url(next)
           ELSE /\ ~response.logged_out
                /\ loggedIn[response.subscriber]
                /\ response.messages =
                      <<subscription_status_message(sub.status,
                                                    sub.current_period_end)>>
                /\ response.status = 302
                /\ response.location = success_url

C5_Witness ==
    /\ CancelReturned(response)
    /\ LastCustomer.sub.status = "past_due"
    /\ LastCustomer.sub.current_period_end = 2
    /\ ~response.logged_out
    /\ loggedIn[response.subscriber]

\* C10: when the cancel form is submitted for a customer with no
\* subscription (none ever, or a canceled one), the provider's cancel is not
\* called, the cancel message is queued, the user is logged out and the
\* response is the redirect to get_redirect_url().  A submission that ended
\* this way leaves the customer without a subscription, so the same form
\* submitted again is of this case.
C10_NothingToCancel ==
    /\ (IsCancel(response) /\ response.goc.id # 0
           /\ ~response.request.hadSubscription)
          => (/\ response.calls = <<"get_or_create">>
              /\ response.messages = <<subscription_cancel_message>>
              /\ response.logged_out
              /\ ~loggedIn[response.subscriber]
              /\ response.status = 302
              /\ response.location =
                    get_redirect_url([present |-> response.request.hasNext,
                                      value |-> response.request.next]))
    /\ (IsCancel(response) /\ response.logged_out)
          => LastCustomer.sub.status \in {"none", canceled}

C10_Witness ==
    /\ IsCancel(response)
    /\ response.request.customerBefore # 0
    /\ ~response.request.hadSubscription
    /\ LastCustomer.sub.status = canceled
    /\ response.calls = <<"get_or_create">>
    /\ response.logged_out

----------------------------------------------------------------------------
(* Properties of get_redirect_url, checked under SpecRedirect.             *)

\* Where a browser sends a redirect to u: backslashes count as slashes, and
\* after the scheme two or more slashes start a host name.
RECURSIVE StripSlashes(_)
StripSlashes(u) ==
    IF u # << >> /\ Head(u) = "/" THEN StripSlashes(Tail(u)) ELSE u

BrowserHost(u) ==
    LET v == ReplaceBackslash(u)
        colon == FirstIn(v, {":"})
        hasScheme == /\ colon > 1
                     /\ colon <= Len(v)
                     /\ \A i \in 1..(colon - 1) : v[i] \in SchemeChars
        rest == IF hasScheme THEN Drop(v, colon) ELSE v
        after == StripSlashes(rest)
    IN IF StartsWith(rest, <<"/", "/">>)
       THEN SubSeq(after, 1, FirstIn(after, {"/"}) - 1)
       ELSE << >>

PointsOffSite(u) == BrowserHost(u) # << >>

\* C6: get_redirect_url returns the value of ?next only if it is not empty
\* and is_safe_url accepts it; a value that points to another domain, an
\* empty value and an absent one are never returned, and redirect_url is
\* returned instead.
C6_RedirectIsSafe ==
    (IsCancel(response) /\ response.kind = "status_cancel") =>
        LET next == response.request.next
            present == response.request.hasNext
            url == response.location
        IN /\ url # redirect_url
                => (present /\ next # << >> /\ is_safe_url(next) /\ url = next)
           /\ (~present \/ next = << >> \/ PointsOffSite(next))
                => url = redirect_url
           /\ ~PointsOffSite(url)

C6_Witness ==
    /\ IsCancel(response)
    /\ response.kind = "status_cancel"
    /\ response.request.hasNext
    /\ response.request.next = <<"e", ":", "/", "/", "e">>
    /\ PointsOffSite(response.request.next)
    /\ response.location = redirect_url

----------------------------------------------------------------------------
(* Properties of Customer.get_or_create as the views call it, checked      *)
(* under SpecCustomers.  Every step handles one request, and response'     *)
(* describes it.                                                           *)

CustomersOf(table, s) == {i \in 1..Len(table) : table[i].subscriber = s}

----------------------------------------------------------------------------
(* Properties of ConfirmFormView and ChangeCardView, checked under         *)
(* SpecBilling.                                                            *)

Contains(seq, x) == \E i \in 1..Len(seq) : seq[i] = x

\* C8: over every sequence of GET and POST requests to ConfirmFormView,
\* customer.subscribe(plan) is not invoked while the customer is validly
\* subscribed to that plan; such a request is answered with the redirect
\* "You already subscribed to this plan".
C8_SubscribeGuarded ==
    (/\ response.view \in {"confirm_get", "confirm_post"}
     /\ response.request.alreadySubscribed
     /\ response.goc.id # 0)
        => (/\ ~Contains(response.calls, "subscribe")
            /\ response.kind = "already_subscribed"
            /\ response.messages = <<AlreadySubscribedMsg>>
            /\ response.location = Route("djstripe:subscribe"))

StripeCalls == {"get_or_create", "add_card", "subscribe", "send_invoice",
                "retry_unpaid_invoices"}

\* C9: in ConfirmFormView.post and ChangeCardView.post, once a provider call
\* raises StripeError no later provider call is made, no call is made twice,
\* the success outcome is not produced and the response carries the error
\* text.
C9_ProviderErrorSurfaced ==
    (/\ response.view \in {"confirm_post", "change_card"}
     /\ response.raised \in StripeCalls)
        => (/\ response.calls # << >>
            /\ response.calls[Len(response.calls)] = response.raised
            /\ \A i, j \in 1..Len(response.calls) :
                  response.calls[i] = response.calls[j] => i = j
            /\ response.kind \notin {"form_valid", "card_updated"}
            /\ response.error_text)

=============================================================================
